---------------------------- MODULE Spec2Model ----------------------------
(***************************************************************************)
(* Model of the routing core of the customer chatbot backend:              *)
(*   src/src/api/app/simple_foundry_orchestrator.py                        *)
(*     - ThreadCache (a cachetools.TTLCache with logging release hooks)    *)
(*     - SimpleFoundryOrchestrator.create / _determine_target_agent /      *)
(*       respond                                                           *)
(* Texts are TLA+ strings; a character is a string of length one.          *)
(***************************************************************************)
EXTENDS Integers, Sequences, FiniteSets, TLC

(***************************************************************************)
(* Bounds of the model.                                                    *)
(***************************************************************************)
\* Number of vocabulary items a classified text is built from.
MaxWords == 2
\* ThreadCache(maxsize=1000, ttl=3600.0), scaled down: the capacity in entries
\* and the time-to-live in clock ticks.
MaxSize == 2
TTL == 2
\* Last clock tick of a run.
MaxTime == 2
\* Number of messages one invocation yields.
MaxFrags == 2
\* The same bound where the subject is the thread cache.
CacheFrags == 1
\* Number of callers of get_simple_foundry_orchestrator().
MaxCallers == 3
\* Number of messages one handoff orchestration run emits.
MaxEmit == 2

(***************************************************************************)
(* Strings.                                                                *)
(***************************************************************************)
CharAt(s, i) == SubSeq(s, i, i)

\* The characters c of chr(1)..chr(255) with c.lower() != c, and c.lower()
\* at the same index.
UpperChars == <<"A","B","C","D","E","F","G","H","I","J","K","L","M",
                "N","O","P","Q","R","S","T","U","V","W","X","Y","Z",
                "À","Á","Â","Ã","Ä","Å","Æ","Ç","È","É","Ê","Ë","Ì",
                "Í","Î","Ï","Ð","Ñ","Ò","Ó","Ô","Õ","Ö","Ø","Ù","Ú",
                "Û","Ü","Ý","Þ">>
LowerChars == <<"a","b","c","d","e","f","g","h","i","j","k","l","m",
                "n","o","p","q","r","s","t","u","v","w","x","y","z",
                "à","á","â","ã","ä","å","æ","ç","è","é","ê","ë","ì",
                "í","î","ï","ð","ñ","ò","ó","ô","õ","ö","ø","ù","ú",
                "û","ü","ý","þ">>
Digits == {"0","1","2","3","4","5","6","7","8","9"}
\* The other characters of chr(1)..chr(255) that \w matches in a str
\* pattern: the alphanumeric ones without a lower-case partner in the range.
OtherWordChars == {"ª","²","³","µ","¹","º","¼","½","¾","ß","ÿ"}

\* c.lower() for the characters c of UpperChars.
LowerOf ==
    [c \in {UpperChars[k] : k \in 1..Len(UpperChars)} |->
        LowerChars[CHOOSE k \in 1..Len(UpperChars) : UpperChars[k] = c]]

\* str.lower() on one character of chr(1)..chr(255).
LowerChar(c) == IF c \in DOMAIN LowerOf THEN LowerOf[c] ELSE c

RECURSIVE LowerFrom(_, _)
LowerFrom(s, i) ==
    IF i > Len(s) THEN "" ELSE LowerChar(CharAt(s, i)) \o LowerFrom(s, i + 1)

\* user_text.lower()
Lower(s) == LowerFrom(s, 1)

\* `phrase in query_lower`: substring containment.
Contains(s, p) ==
    \E i \in 1..(Len(s) - Len(p) + 1) : SubSeq(s, i, i + Len(p) - 1) = p

\* The characters of chr(1)..chr(255) that \w matches in a str pattern
\* (Unicode-aware): letters, digits and the underscore.
WordChars ==
    {UpperChars[k] : k \in 1..Len(UpperChars)}
        \cup {LowerChars[k] : k \in 1..Len(LowerChars)}
        \cup Digits \cup {"_"} \cup OtherWordChars

\* \w of the re module on one character.
IsWordChar(c) == c \in WordChars

IsWordAt(s, i) == i >= 1 /\ i <= Len(s) /\ IsWordChar(CharAt(s, i))

\* \b holds between positions i-1 and i of s (i in 1..Len(s)+1).
WordBoundary(s, i) == IsWordAt(s, i - 1) # IsWordAt(s, i)

\* The literal p occurs in s at position i.
LitAt(s, p, i) ==
    /\ i >= 1
    /\ i + Len(p) - 1 <= Len(s)
    /\ SubSeq(s, i, i + Len(p) - 1) = p

\* `.` matches any character except a newline.
NoNewline(s, from, to) == \A k \in from..to : CharAt(s, k) # "\n"

\* re.search(r'\b(alt)\b', s) for one alternative of a group:
\*   <<p>>      the literal p
\*   <<p, q>>   p.*q
AltSearch(alt, s) ==
    IF Len(alt) = 1
    THEN \E i \in 1..Len(s) :
            /\ LitAt(s, alt[1], i)
            /\ WordBoundary(s, i)
            /\ WordBoundary(s, i + Len(alt[1]))
    ELSE \E i \in 1..Len(s) :
            /\ LitAt(s, alt[1], i)
            /\ WordBoundary(s, i)
            /\ \E j \in (i + Len(alt[1]))..Len(s) :
                  /\ LitAt(s, alt[2], j)
                  /\ WordBoundary(s, j + Len(alt[2]))
                  /\ NoNewline(s, i + Len(alt[1]), j - 1)

\* re.search(pattern, query_lower) for a pattern \b(a1|a2|...)\b
ReSearch(pattern, s) == \E k \in 1..Len(pattern) : AltSearch(pattern[k], s)

(***************************************************************************)
(* Intent classifier: SimpleFoundryOrchestrator._determine_target_agent    *)
(***************************************************************************)
AgentNames == {"ProductLookupAgent", "OrderStatusAgent", "KnowledgeAgent"}

product_patterns == <<
    << <<"paint">>, <<"color">>, <<"blue">>, <<"red">>, <<"green">>,
       <<"white">>, <<"black">>, <<"shade">>, <<"tone">>, <<"finish">> >>,
    << <<"product">>, <<"item">>, <<"buy">>, <<"purchase">>, <<"price">>,
       <<"cost">> >>,
    << <<"what", "offer">>, <<"show", "product">>, <<"find", "paint">> >>,
    << <<"match", "color">>, <<"color", "match">>, <<"sample">> >>,
    << <<"recommend">>, <<"suggest">>, <<"help", "choose">> >>,
    << <<"interior">>, <<"exterior">>, <<"primer">>, <<"coating">> >>
  >>

policy_patterns == <<
    << <<"return">>, <<"refund">>, <<"exchange">>, <<"policy">>,
       <<"warranty">> >>,
    << <<"problem">>, <<"issue">>, <<"complaint">>, <<"damaged">>,
       <<"leaking">> >>,
    << <<"ship">>, <<"delivery">>, <<"shipping">>, <<"track">> >>,
    << <<"help">>, <<"support">>, <<"contact">>, <<"customer service">> >>,
    << <<"guarantee">>, <<"coverage">>, <<"defect">> >>,
    << <<"cancel">>, <<"order", "status">>, <<"tracking">> >>
  >>

product_phrases == <<"what products", "what do you offer", "show me products">>
policy_phrases == <<"return policy", "warranty", "refund", "damaged">>

\* sum(1 for pattern in patterns if re.search(pattern, query_lower))
Score(patterns, query_lower) ==
    Cardinality({k \in 1..Len(patterns) : ReSearch(patterns[k], query_lower)})

product_score(user_text) == Score(product_patterns, Lower(user_text))
policy_score(user_text) == Score(policy_patterns, Lower(user_text))

\* any(phrase in query_lower for phrase in phrases)
AnyPhrase(phrases, query_lower) ==
    \E k \in 1..Len(phrases) : Contains(query_lower, phrases[k])

\* Variant of determine_target_agent: without the product special case.
determine_target_agent_no_product_case(user_text) ==
    LET query_lower == Lower(user_text)
        ps == Score(product_patterns, query_lower)
        ks == Score(policy_patterns, query_lower)
    IN  IF AnyPhrase(policy_phrases, query_lower) THEN "KnowledgeAgent"
        ELSE IF ps > ks THEN "ProductLookupAgent"
        ELSE IF ks > 0 THEN "KnowledgeAgent"
        ELSE "ProductLookupAgent"

\* Variant of determine_target_agent: without the policy special case.
determine_target_agent_no_policy_case(user_text) ==
    LET query_lower == Lower(user_text)
        ps == Score(product_patterns, query_lower)
        ks == Score(policy_patterns, query_lower)
    IN  IF AnyPhrase(product_phrases, query_lower) THEN "ProductLookupAgent"
        ELSE IF ps > ks THEN "ProductLookupAgent"
        ELSE IF ks > 0 THEN "KnowledgeAgent"
        ELSE "ProductLookupAgent"

\* Variant of determine_target_agent: `>=` for `>` in the comparison of the
\* scores.
determine_target_agent_tie_to_product(user_text) ==
    LET query_lower == Lower(user_text)
        ps == Score(product_patterns, query_lower)
        ks == Score(policy_patterns, query_lower)
    IN  IF AnyPhrase(product_phrases, query_lower) THEN "ProductLookupAgent"
        ELSE IF AnyPhrase(policy_phrases, query_lower) THEN "KnowledgeAgent"
        ELSE IF ps >= ks THEN "ProductLookupAgent"
        ELSE IF ks > 0 THEN "KnowledgeAgent"
        ELSE "ProductLookupAgent"

\* Variant of determine_target_agent: texts about the status of an order go
\* to the order agent.
determine_target_agent_order_status(user_text) ==
    LET query_lower == Lower(user_text)
        ps == Score(product_patterns, query_lower)
        ks == Score(policy_patterns, query_lower)
    IN  IF AnyPhrase(product_phrases, query_lower) THEN "ProductLookupAgent"
        ELSE IF AnyPhrase(policy_phrases, query_lower) THEN "KnowledgeAgent"
        ELSE IF Contains(query_lower, "order status") THEN "OrderStatusAgent"
        ELSE IF ps > ks THEN "ProductLookupAgent"
        ELSE IF ks > 0 THEN "KnowledgeAgent"
        ELSE "ProductLookupAgent"

determine_target_agent(user_text) ==
    LET query_lower == Lower(user_text)
        ps == Score(product_patterns, query_lower)
        ks == Score(policy_patterns, query_lower)
    IN  IF AnyPhrase(product_phrases, query_lower) THEN "ProductLookupAgent"
        ELSE IF AnyPhrase(policy_phrases, query_lower) THEN "KnowledgeAgent"
        ELSE IF ps > ks THEN "ProductLookupAgent"
        ELSE IF ks > 0 THEN "KnowledgeAgent"
        ELSE "ProductLookupAgent"

(***************************************************************************)
(* ThreadCache(TTLCache): the cache is the record                          *)
(*   data     key -> thread id            (Cache.__data)                   *)
(*   links    keys, least recently used first (TTLCache.__links)           *)
(*   root     keys in expiry order        (the list of TTLCache.__root)    *)
(*   expires  key -> expiry time          (_Link.expires)                  *)
(* The release hook is the logger call of expire() and popitem(); a hook   *)
(* record is [key, thread_id, kind, raised].  What the logger calls of one *)
(* cache operation do (raises) is a sequence of HookOutcomes, one for each *)
(* call of the hook the operation makes, in the order of the calls.        *)
(***************************************************************************)
EmptyMap == [k \in {} |-> 0]
MapPut(m, k, v) == [x \in (DOMAIN m) \cup {k} |-> IF x = k THEN v ELSE m[x]]
MapDel(m, k) == [x \in (DOMAIN m) \ {k} |-> m[x]]
SeqDel(s, k) == LET Keep(x) == x # k IN SelectSeq(s, Keep)
SeqSet(s) == {s[i] : i \in 1..Len(s)}

\* None as a thread id; a thread id is a non-empty tuple.
NoThread == <<>>

\* ThreadCache(maxsize=..., ttl=...) as constructed in __init__
EmptyCache ==
    [data |-> EmptyMap, links |-> <<>>, root |-> <<>>, expires |-> EmptyMap]

\* Cache.__delitem__ / TTLCache.__delitem__: drop key from every structure.
CacheDel(c, k) ==
    [data |-> MapDel(c.data, k), links |-> SeqDel(c.links, k),
     root |-> SeqDel(c.root, k), expires |-> MapDel(c.expires, k)]

\* One item handed to the release hook.
Item(c, k) == [key |-> k, thread_id |-> c.data[k]]

\* TTLCache.expire(time): walk the expiry list from its head while the head
\* has expired (not time < expires); returns the cache and the removed items.
RECURSIVE TTLCache_expire(_, _, _)
TTLCache_expire(c, time, expired) ==
    IF c.root # <<>> /\ ~(time < c.expires[Head(c.root)])
    THEN TTLCache_expire(CacheDel(c, Head(c.root)), time,
                         Append(expired, Item(c, Head(c.root))))
    ELSE [cache |-> c, items |-> expired]

\* What the logger calls of one call of the hook do:
\*   none    logger.info returns
\*   caught  logger.info raises an Exception, logger.error returns
\*   error   logger.info raises an Exception and so does logger.error, in
\*           the except clause
\*   base    logger.info raises a BaseException that is no Exception
HookOutcomes == {"none", "caught", "error", "base"}

\* The try/except around the hook: `except Exception` catches what
\* logger.info raises unless it is a BaseException, and calls logger.error,
\* whose exception nothing catches.
HookPropagates(outcome) == outcome \in {"error", "base"}

\* The outcome of the n-th call of the hook; the logger returns in the calls
\* raises says nothing about.
Outcome(raises, n) == IF n <= Len(raises) THEN raises[n] ELSE "none"

\* raises without the outcomes of the first n calls.
Rest(raises, n) == SubSeq(raises, n + 1, Len(raises))

\* The calls of the hook, of the first n, that an exception leaves.
Leaving(raises, n) == {i \in 1..n : HookPropagates(Outcome(raises, i))}

\* The number of calls of the hook made in a loop over n items: all of them,
\* or those up to the first one an exception leaves.
HookCalls(raises, n) ==
    IF Leaving(raises, n) = {} THEN n
    ELSE CHOOSE i \in Leaving(raises, n) : \A j \in Leaving(raises, n) : i <= j

\* The hook records of a list of items: the hook runs for each item until an
\* exception leaves it.
HookRecords(items, kind, raises) ==
    [i \in 1..HookCalls(raises, Len(items)) |->
        [key |-> items[i].key, thread_id |-> items[i].thread_id,
         kind |-> kind, raised |-> Outcome(raises, i) # "none"]]

\* ThreadCache.expire(time): the hook per item that super().expire(time),
\* whose result is r, has removed.  exc: an exception leaves the method
\* (which then returns nothing; items stays the list of removed items).
ExpireHooks(r, raises) ==
    [cache |-> r.cache,
     items |-> r.items,
     hooks |-> HookRecords(r.items, "expired", raises),
     exc |-> Leaving(raises, Len(r.items)) # {}]

\* ThreadCache.expire(time)
ThreadCache_expire(c, time, raises) ==
    ExpireHooks(TTLCache_expire(c, time, <<>>), raises)

\* TTLCache.popitem() after its call of expire, whose result is e: pop the
\* first key of __links; then the hook of ThreadCache.popitem(), the call
\* after those of expire.
PopFirst(e, raises) ==
    IF e.exc
    THEN [cache |-> e.cache, items |-> <<>>, hooks |-> e.hooks, exc |-> TRUE]
    ELSE [cache |-> CacheDel(e.cache, Head(e.cache.links)),
          items |-> <<Item(e.cache, Head(e.cache.links))>>,
          hooks |-> e.hooks \o
                    HookRecords(<<Item(e.cache, Head(e.cache.links))>>,
                                "evicted", Rest(raises, Len(e.hooks))),
          exc |-> HookPropagates(Outcome(raises, Len(e.hooks) + 1))]

\* ThreadCache.popitem()
ThreadCache_popitem(c, time, raises) ==
    PopFirst(ThreadCache_expire(c, time, raises), raises)

\* The result p of a popitem() joined to the items and hooks of the earlier
\* ones.
Joined(p, items, hooks) ==
    [cache |-> p.cache, items |-> items \o p.items, hooks |-> hooks \o p.hooks,
     exc |-> p.exc]

\* Cache.__setitem__: `while currsize + size > maxsize: self.popitem()` for a
\* key not yet stored (every value has size 1); r is the state so far and
\* raises the outcomes of the calls of the hook from the first popitem() on.
RECURSIVE MakeRoom(_, _, _)
MakeRoom(r, time, raises) ==
    IF ~r.exc /\ Cardinality(DOMAIN r.cache.data) + 1 > MaxSize
    THEN MakeRoom(Joined(ThreadCache_popitem(r.cache, time,
                                             Rest(raises, Len(r.hooks))),
                         r.items, r.hooks),
                  time, raises)
    ELSE r

\* Cache.__setitem__ and the link update of TTLCache.__setitem__, after the
\* expire call with result e and the evictions with result m.
StoreItem(e, m, key, value, time) ==
    IF m.exc
    THEN [cache |-> m.cache, purged |-> e.items, evicted |-> m.items,
          hooks |-> e.hooks \o m.hooks, exc |-> TRUE, inserted |-> FALSE]
    ELSE [cache |->
             [data |-> MapPut(m.cache.data, key, value),
              links |-> Append(SeqDel(m.cache.links, key), key),
              root |-> Append(SeqDel(m.cache.root, key), key),
              expires |-> MapPut(m.cache.expires, key, time + TTL)],
          purged |-> e.items, evicted |-> m.items,
          hooks |-> e.hooks \o m.hooks, exc |-> FALSE,
          inserted |-> key \notin DOMAIN m.cache.data]

\* Variant of EvictAndStore: stores without making room.
EvictAndStore_no_eviction(e, key, value, time, raises) ==
    StoreItem(e, [cache |-> e.cache, items |-> <<>>, hooks |-> <<>>,
                  exc |-> e.exc],
              key, value, time)

\* Variant of EvictAndStore: makes room whether or not the key is stored.
EvictAndStore_always_room(e, key, value, time, raises) ==
    StoreItem(e,
              IF e.exc
              THEN [cache |-> e.cache, items |-> <<>>, hooks |-> <<>>,
                    exc |-> e.exc]
              ELSE MakeRoom([cache |-> e.cache, items |-> <<>>,
                             hooks |-> <<>>, exc |-> FALSE], time,
                            Rest(raises, Len(e.hooks))),
              key, value, time)

\* Cache.__setitem__ after the expire call with result e: evict while the
\* cache is full and the key is new, then store.
EvictAndStore(e, key, value, time, raises) ==
    StoreItem(e,
              IF e.exc \/ key \in DOMAIN e.cache.data
              THEN [cache |-> e.cache, items |-> <<>>, hooks |-> <<>>,
                    exc |-> e.exc]
              ELSE MakeRoom([cache |-> e.cache, items |-> <<>>,
                             hooks |-> <<>>, exc |-> FALSE], time,
                            Rest(raises, Len(e.hooks))),
              key, value, time)

\* Variant of ThreadCache_setitem: an entry that is stored and unexpired is
\* kept (setdefault).
ThreadCache_setitem_if_absent(c, key, value, time, raises) ==
    IF key \in DOMAIN c.data /\ time < c.expires[key]
    THEN [cache |-> c, purged |-> <<>>, evicted |-> <<>>, hooks |-> <<>>,
          exc |-> FALSE, inserted |-> FALSE]
    ELSE EvictAndStore(ThreadCache_expire(c, time, raises), key, value, time,
                       raises)

\* TTLCache.__setitem__(key, value) at clock reading time.  Returns the
\* cache, the purged and evicted items, the hook records, whether an
\* exception leaves the call and whether the key was new.
ThreadCache_setitem(c, key, value, time, raises) ==
    EvictAndStore(ThreadCache_expire(c, time, raises), key, value, time, raises)

\* TTLCache.__contains__: stored and not expired.
ThreadCache_contains(c, key, time) ==
    key \in DOMAIN c.data /\ time < c.expires[key]

\* Variant of ThreadCache_get: a hit leaves the order of __links alone.
ThreadCache_get_no_touch(c, key, time) ==
    IF ThreadCache_contains(c, key, time)
    THEN [cache |-> c, value |-> c.data[key]]
    ELSE [cache |-> c, value |-> NoThread]

\* Variant of ThreadCache_get: a hit restarts the time-to-live of the entry.
ThreadCache_get_refresh(c, key, time) ==
    IF ThreadCache_contains(c, key, time)
    THEN [cache |-> [c EXCEPT !.links = Append(SeqDel(c.links, key), key),
                              !.root = Append(SeqDel(c.root, key), key),
                              !.expires[key] = time + TTL],
          value |-> c.data[key]]
    ELSE [cache |-> c, value |-> NoThread]

\* Cache.get(key): `self[key] if key in self else None`; a hit moves the key
\* to the end of __links (__getlink), a miss changes nothing.
ThreadCache_get(c, key, time) ==
    IF ThreadCache_contains(c, key, time)
    THEN [cache |-> [c EXCEPT !.links = Append(SeqDel(c.links, key), key)],
          value |-> c.data[key]]
    ELSE [cache |-> c, value |-> NoThread]


(***************************************************************************)
(* State.                                                                  *)
(***************************************************************************)
VARIABLES
    text,           \* classifier harness: the text handed to the classifier
    target,         \* classifier harness: the name it returned ("" before)
    now,            \* the reading of the cache's timer (time.monotonic), in ticks
    settings,       \* the external configuration: [endpoint, ids]
    stage,          \* position of create(): new, client, product, order,
                    \* knowledge, done
    is_configured,  \* SimpleFoundryOrchestrator.is_configured
    agents,         \* keys of SimpleFoundryOrchestrator.agents
    thread_cache,   \* SimpleFoundryOrchestrator.thread_cache
    calls,          \* the respond calls in flight: slot -> frame
    observe,        \* whether this run records the history variables
    used,           \* history: the cached keys in the order of their latest
                    \* use, each with the kind of that use ("get" for a
                    \* lookup that hit, "put" for a store)
    last,           \* history: the cache operation of the step just taken
    returned,       \* history: the respond call that returned in the step
                    \* just taken, with its response
    simple_foundry_orchestrator_instance,
                    \* the module global _simple_foundry_orchestrator_instance:
                    \* 0 for None, else the number of the instance
    getters,        \* the get_simple_foundry_orchestrator() calls: caller ->
                    \* frame
    handoff         \* the HandoffChatOrchestrator and its respond calls

vars == <<text, target, now, settings, stage, is_configured, agents,
          thread_cache, calls, observe, used, last, returned,
          simple_foundry_orchestrator_instance, getters, handoff>>

(***************************************************************************)
(* Inputs of the model.                                                    *)
(***************************************************************************)
\* conversation_id values; "" is the falsy one (None or empty).
Convs == {"", "c1"}
CacheConvs == {"c1", "c2"}
ConvIds == <<"c1", "c2", "c3", "c4", "c5">>
\* One conversation more than the cache has room for.
RaceConvs == {ConvIds[n] : n \in 1..(MaxSize + 1)}
\* user_text values of respond calls.
RespondTexts == {"Show me blue paint", "What is your return policy?"}
RaceTexts == {"Show me blue paint"}
\* message.content values; "" stands for a message without content.
Fragments == {"", "Hi", "? "}
CacheFragments == {"Hi"}
\* A text about the status of an order.
OrderTexts == {"Track my order status"}

\* self._determine_target_agent(user_text), tabulated once over the texts of
\* the respond calls.
TargetOf ==
    [t \in RespondTexts \cup OrderTexts |-> determine_target_agent(t)]
\* str(e) of an exception raised by the agent invocation.
InvokeError == "invoke failed"
\* str(e) of an exception raised by the logger call of the release hook.
HookError == "logging failed"

\* The respond calls in flight at once.
Slots == {1, 2}

(***************************************************************************)
(* Responses of respond.                                                   *)
(***************************************************************************)
\* U+000B, the vertical tab, as a one-character string.
VT == ""

\* The characters str.strip() removes (those of str.isspace()), of
\* chr(1)..chr(255): space, \t, \n, \r, \f, the vertical tab and, written
\* as the characters themselves, U+001C, U+001D, U+001E, U+001F, U+0085 and
\* U+00A0.
Whitespace ==
    {" ", "\t", "\n", "\r", "\f", VT, "", "", "", "", "", " "}

RECURSIVE LStrip(_)
LStrip(s) ==
    IF Len(s) > 0 /\ CharAt(s, 1) \in Whitespace
    THEN LStrip(SubSeq(s, 2, Len(s))) ELSE s

RECURSIVE RStrip(_)
RStrip(s) ==
    IF Len(s) > 0 /\ CharAt(s, Len(s)) \in Whitespace
    THEN RStrip(SubSeq(s, 1, Len(s) - 1)) ELSE s

\* str.strip()
Strip(s) == RStrip(LStrip(s))

\* str.endswith(suffix)
EndsWith(s, suffix) ==
    Len(s) >= Len(suffix) /\ SubSeq(s, Len(s) - Len(suffix) + 1, Len(s)) = suffix

NotConfiguredResponse ==
    [error |-> "Simple Foundry orchestrator not configured",
     text |-> "I'm sorry, the AI service is not properly configured."]

UnavailableResponse(target_agent_name) ==
    [error |-> "Agent " \o target_agent_name \o " not available",
     text |-> "I'm sorry, the " \o target_agent_name
                  \o " is not currently available."]

\* Variant of SuccessResponse: endswith("?") without strip().
SuccessResponse_no_strip(response_content) ==
    [messages |-> <<response_content>>,
     awaiting_user |-> EndsWith(response_content, "?"),
     text |-> response_content]

SuccessResponse(response_content) ==
    [messages |-> <<response_content>>,
     awaiting_user |-> EndsWith(Strip(response_content), "?"),
     text |-> response_content]

\* Variant of NoResponse: the error without the user-facing text.
NoResponse_without_text == [error |-> "No response from agent"]

NoResponse ==
    [error |-> "No response from agent",
     text |-> "I'm sorry, I couldn't get a response from the agent."]

ExceptionResponse(e) ==
    [error |-> "Failed to generate response: " \o e,
     text |-> "I'm sorry, I encountered an error trying to process your request."]


\* Variant of cache_key: the key is the conversation id alone.
cache_key_no_agent(conversation_id, target_agent_name) == conversation_id

\* cache_key = f"{conversation_id}_{target_agent_name}"
cache_key(conversation_id, target_agent_name) ==
    conversation_id \o "_" \o target_agent_name

\* The order of use after key was used by a get or a put, kept to the keys
\* the cache still holds.
Touched(order, key, by, held) ==
    LET Other(u) == u.key # key
        Held(u) == u.key \in held
    IN  SelectSeq(Append(SelectSeq(order, Other), [key |-> key, by |-> by]),
                  Held)

\* The order of use after an operation that used no key, kept to the keys
\* the cache still holds.
Untouched(order, held) ==
    LET Held(u) == u.key \in held
    IN  SelectSeq(order, Held)

\* A free slot.  fragments, events and invokes are history: the contents of
\* the messages received and what the call has done (its cache stores are
\* recorded while observe holds, as the rest of the cache's history).
IdleCall ==
    [pc |-> "idle", user_text |-> "", conversation_id |-> "",
     target_agent_name |-> "", thread |-> NoThread, remote |-> NoThread,
     response_content |-> "", nmsg |-> 0, fragments |-> <<>>, events |-> {},
     invokes |-> 0]

\* No respond call returned in the step just taken.
NoReturn == [slot |-> 0, call |-> IdleCall, result |-> [text |-> ""]]

\* The respond call with frame f in slot i returns r.
Return(i, f, r) ==
    IF observe THEN [slot |-> i, call |-> f, result |-> r] ELSE NoReturn

\* A BaseException leaves the respond call with frame f: no value is
\* returned (slot 0); the frame of the call is kept as history.
Propagate(f) ==
    IF observe
    THEN [slot |-> 0, call |-> [f EXCEPT !.events = @ \cup {"propagated"}],
          result |-> [text |-> ""]]
    ELSE NoReturn

\* No cache operation in the step just taken.
NoOp ==
    [op |-> "none", slot |-> 0, key |-> "", value |-> NoThread, time |-> 0,
     pre |-> EmptyCache, used |-> <<>>, purged |-> <<>>, evicted |-> <<>>, hooks |-> <<>>,
     exc |-> FALSE, raises |-> <<>>, inserted |-> FALSE]

\* The state outside the SimpleFoundryOrchestrator instance, and the state of
\* the instance with its harness.
others == <<simple_foundry_orchestrator_instance, getters, handoff>>

orchestrator ==
    <<text, target, now, settings, stage, is_configured, agents, thread_cache,
      calls, observe, used, last, returned>>

\* The callers of get_simple_foundry_orchestrator().
Callers == 1..MaxCallers

\* A caller that has not called yet: made is the instance its own create()
\* constructed (0 for none), got the instance it was handed.
IdleGetter == [pc |-> "idle", made |-> 0, got |-> 0]

\* The list objects of the HandoffChatOrchestrator: the one its attribute
\* _assistant_messages is bound to and those its returned calls handed out.
ListIds == 1..(Cardinality(Slots) + 1)

\* A respond call of the HandoffChatOrchestrator that has not started:
\* emitted is the history of the assistant messages its own orchestration run
\* emitted; messages is the list object it returned under "messages" (0 for
\* none), fallback the list [last_msg] it built and returned instead.
IdleRun ==
    [pc |-> "idle", task |-> "", sent |-> 0, emitted |-> <<>>,
     messages |-> 0, fallback |-> <<>>, awaiting_user |-> FALSE]

\* HandoffChatOrchestrator.__init__: lists is the content of each list
\* object, assistant_messages the object self._assistant_messages is bound
\* to.
NewHandoff ==
    [lists |-> [l \in ListIds |-> <<>>], assistant_messages |-> 1,
     last_agent |-> "", runs |-> [i \in Slots |-> IdleRun]]

(***************************************************************************)
(* Construction: SimpleFoundryOrchestrator.__init__ and create().          *)
(***************************************************************************)
\* config.has_foundry_config(): the endpoint is set.
has_foundry_config == settings.endpoint

AllSettings == [endpoint : BOOLEAN, ids : SUBSET AgentNames]

\* The module before get_simple_foundry_orchestrator() is first called.
Init ==
    /\ text = ""
    /\ target = ""
    /\ now = 0
    /\ settings \in AllSettings
    /\ stage = "new"
    /\ is_configured = FALSE
    /\ agents = {}
    /\ thread_cache = EmptyCache
    /\ calls = [i \in Slots |-> IdleCall]
    /\ observe = TRUE
    /\ used = <<>>
    /\ last = NoOp
    /\ returned = NoReturn
    /\ simple_foundry_orchestrator_instance = 0
    /\ getters = [c \in Callers |-> IdleGetter]
    /\ handoff = NewHandoff

\* self = cls(); `if not self.is_configured: return self`.  After a call
\* of create() that raised, the next call constructs a new instance.
CreateStart ==
    /\ stage \in {"new", "raised"}
    /\ agents' = {}
    /\ is_configured' = has_foundry_config
    /\ thread_cache' = EmptyCache
    /\ stage' = IF has_foundry_config THEN "client" ELSE "done"
    /\ last' = NoOp
    /\ returned' = NoReturn
    /\ UNCHANGED <<others, text, target, observe, used, now, settings, calls>>

\* What an awaited step of create() does:
\*   ok      it returns
\*   raises  it raises an Exception
\*   base    it raises a BaseException that is no Exception, as
\*           asyncio.CancelledError
CreateOutcomes == {"ok", "raises", "base"}

\* What create() does when an awaited step raises an Exception: the except
\* clause (lines 150-153).
CreateFailed ==
    /\ is_configured' = FALSE
    /\ stage' = "done"
    /\ agents' = agents

\* An awaited step raises a BaseException: `except Exception` does not catch
\* it, create() raises and returns no instance; the instance it leaves
\* behind has the flag as __init__ set it.
CreateCancelled ==
    /\ is_configured' = is_configured
    /\ stage' = "raised"
    /\ agents' = agents

\* await init_foundry_client()
CreateClient(outcome) ==
    /\ stage = "client"
    /\ IF outcome = "ok"
       THEN /\ stage' = "product"
            /\ UNCHANGED <<is_configured, agents>>
       ELSE IF outcome = "raises" THEN CreateFailed ELSE CreateCancelled
    /\ last' = NoOp
    /\ returned' = NoReturn
    /\ UNCHANGED <<others, text, target, observe, used, now, settings, thread_cache, calls>>

\* Variant of CreateFinish: without the `if not self.agents` test.
CreateFinish_unchecked(built) ==
    /\ is_configured' = is_configured
    /\ stage' = "done"
    /\ agents' = built

\* `if not self.agents: self.is_configured = False`, then return self.
CreateFinish(built) ==
    /\ is_configured' = (built # {})
    /\ stage' = "done"
    /\ agents' = built

\* One `if settings.foundry_<x>_agent_id:` block of create(): build and
\* register the agent, or skip it when its identifier is missing.
CreateBuild(at, name, nextStage, outcome) ==
    /\ stage = at
    /\ outcome # "ok" => name \in settings.ids
    /\ IF outcome = "raises" THEN CreateFailed
       ELSE IF outcome = "base" THEN CreateCancelled
       ELSE LET built == IF name \in settings.ids THEN agents \cup {name}
                         ELSE agents
            IN  IF nextStage = "done"
                THEN CreateFinish(built)
                ELSE /\ agents' = built
                     /\ stage' = nextStage
                     /\ UNCHANGED is_configured
    /\ last' = NoOp
    /\ returned' = NoReturn
    /\ UNCHANGED <<others, text, target, observe, used, now, settings, thread_cache, calls>>

Create ==
    \/ CreateStart
    \/ \E outcome \in CreateOutcomes : CreateClient(outcome)
    \/ \E outcome \in CreateOutcomes :
           CreateBuild("product", "ProductLookupAgent", "order", outcome)
    \/ \E outcome \in CreateOutcomes :
           CreateBuild("order", "OrderStatusAgent", "knowledge", outcome)
    \/ \E outcome \in CreateOutcomes :
           CreateBuild("knowledge", "KnowledgeAgent", "done", outcome)

(***************************************************************************)
(* SimpleFoundryOrchestrator.respond.  The call runs without suspension up *)
(* to the first `await` of the `async for`, then once per message of the   *)
(* invocation, then to its return.                                         *)
(***************************************************************************)
Free(i) == calls[i].pc = "idle"

\* Variant of LookupThread: the invocation never gets the cached thread.
LookupThread_no_reuse(conversation_id, target_agent_name) ==
    [cache |-> thread_cache, value |-> NoThread]

\* The thread-cache lookup of respond (lines 230-236): the cache after it and
\* the thread handed to agent.invoke.
LookupThread(conversation_id, target_agent_name) ==
    IF conversation_id # ""
    THEN ThreadCache_get(thread_cache,
                         cache_key(conversation_id, target_agent_name), now)
    ELSE [cache |-> thread_cache, value |-> NoThread]

\* The thread ids held by the cache or by a respond call in flight.
UsedThreads ==
    {thread_cache.data[k] : k \in DOMAIN thread_cache.data}
        \cup {calls[j].remote : j \in Slots}

\* The id of the thread the remote service creates for an invocation without
\* a thread: an id nobody holds.  Ids are opaque; the model names a thread
\* <<key, n>> after the conversation key it is created for, n the least
\* number that makes the id new.
NewThread(key) ==
    LET n == CHOOSE m \in 1..(Cardinality(Slots) + 1) :
                 /\ <<key, m>> \notin UsedThreads
                 /\ \A u \in 1..(m - 1) : <<key, u>> \in UsedThreads
    IN  <<key, n>>

\* Variant of NotConfigured: respond does not test the flag.
NotConfigured_skipped == FALSE

\* `if not self.is_configured:` of respond.
NotConfigured == ~is_configured

\* The frame of a respond call as it is entered.
Entered(user_text, conversation_id) ==
    [IdleCall EXCEPT !.user_text = user_text,
                     !.conversation_id = conversation_id]

\* Lines 229-240 of respond: g is the result of the cache lookup; the
\* invocation starts on the cached thread or on a new one.
StartInvoke(i, frame, key, g) ==
    /\ thread_cache' = g.cache
    /\ returned' = NoReturn
    /\ calls' = [calls EXCEPT ![i] =
           [frame EXCEPT !.pc = "streaming",
                         !.thread = g.value,
                         !.remote = IF g.value # NoThread THEN g.value
                                    ELSE NewThread(key),
                         !.events = {"classify", "lookup", "invoke"}
                             \cup (IF frame.conversation_id # ""
                                   THEN {"get"} ELSE {}),
                         !.invokes = 1]]
    /\ last' = IF frame.conversation_id = "" \/ ~observe THEN NoOp
               ELSE [NoOp EXCEPT !.op = "get", !.slot = i, !.key = key,
                                 !.value = g.value, !.time = now,
                                 !.pre = thread_cache, !.used = used]
    /\ used' = IF observe /\ g.value # NoThread
               THEN Touched(used, key, "get", DOMAIN g.cache.data)
               ELSE used

\* Variant of Route: without the `if not agent` test.
Route_unchecked(i, frame, target_agent_name) ==
    StartInvoke(i,
                [frame EXCEPT !.target_agent_name = target_agent_name],
                cache_key(frame.conversation_id, target_agent_name),
                LookupThread(frame.conversation_id, target_agent_name))

\* Lines 215-240 of respond, the classifier having returned
\* target_agent_name.
Route(i, frame, target_agent_name) ==
    IF target_agent_name \notin agents
    THEN /\ returned' =
               Return(i, [frame EXCEPT !.target_agent_name = target_agent_name,
                                       !.events = {"classify", "lookup"}],
                      UnavailableResponse(target_agent_name))
         /\ last' = NoOp
         /\ UNCHANGED <<thread_cache, calls, used>>
    ELSE StartInvoke(i,
                     [frame EXCEPT !.target_agent_name = target_agent_name],
                     cache_key(frame.conversation_id, target_agent_name),
                     LookupThread(frame.conversation_id, target_agent_name))

\* respond up to the first suspension, in the first free slot: the
\* configuration check, the classifier, the registry lookup, the cache
\* lookup and the start of agent.invoke.
RespondStart(i, user_text, conversation_id) ==
    /\ stage = "done"
    /\ Free(i)
    /\ \A j \in 1..(i - 1) : ~Free(j)
    /\ IF NotConfigured
       THEN /\ returned' = Return(i, Entered(user_text, conversation_id),
                                  NotConfiguredResponse)
            /\ last' = NoOp
            /\ UNCHANGED <<thread_cache, calls, used>>
       ELSE Route(i, Entered(user_text, conversation_id), TargetOf[user_text])
    /\ UNCHANGED <<others, text, target, observe, now, settings, stage, is_configured,
                   agents>>

\* Variant of Accumulate: `=` for `+=`.
Accumulate_overwrite(response_content, content) ==
    IF content # "" THEN content ELSE response_content

\* Lines 241-242 of respond: `if ... message.content: response_content +=
\* str(message.content)`.
Accumulate(response_content, content) ==
    IF content # "" THEN response_content \o content ELSE response_content

\* Lines 245-247 of respond: the message carries a thread and the call a
\* conversation id; p is the result of the cache store, g the frame after the
\* message.  An exception that leaves the store is a BaseException, which
\* leaves respond, or the Exception of logger.error, which the except clause
\* of respond catches: it returns the error response unless its own call of
\* logger.error (line 264) raises again, which leaves respond as well.
\* A store that an exception left has stored nothing and has not used the
\* key: the order of use only loses the keys that were removed.
CacheThread(i, g, key, p, raises) ==
    /\ Len(raises) = Len(p.hooks)
    /\ thread_cache' = p.cache
    /\ used' = IF ~observe THEN used
               ELSE IF p.exc THEN Untouched(used, DOMAIN p.cache.data)
               ELSE Touched(used, key, "put", DOMAIN p.cache.data)
    /\ last' = IF ~observe THEN NoOp
               ELSE [NoOp EXCEPT
                       !.op = "put", !.slot = i, !.key = key,
                       !.value = g.remote, !.time = now,
                       !.pre = thread_cache, !.used = used,
                       !.purged = p.purged,
                       !.evicted = p.evicted, !.hooks = p.hooks,
                       !.exc = p.exc, !.raises = raises,
                       !.inserted = p.inserted]
    /\ IF p.exc
       THEN /\ calls' = [calls EXCEPT ![i] = IdleCall]
            /\ returned' \in
                  IF raises[Len(raises)] = "base" THEN {Propagate(g)}
                  ELSE {Return(i, g, ExceptionResponse(HookError)),
                        Propagate(g)}
       ELSE /\ calls' = [calls EXCEPT ![i] = g]
            /\ returned' = NoReturn

\* One iteration of the `async for`: a message with content (possibly empty)
\* and possibly a thread; raises: what the logger calls of the release hook
\* do during this iteration, call by call.
RespondMessage(i, content, has_thread, raises, maxfrags) ==
    /\ calls[i].pc = "streaming"
    /\ calls[i].nmsg < maxfrags
    /\ IF calls[i].conversation_id # "" /\ has_thread
       THEN CacheThread(i,
                [calls[i] EXCEPT !.response_content = Accumulate(@, content),
                                 !.nmsg = @ + 1,
                                 !.fragments = Append(@, content),
                                 !.events = IF observe THEN @ \cup {"put"}
                                            ELSE @],
                cache_key(calls[i].conversation_id,
                          calls[i].target_agent_name),
                ThreadCache_setitem(thread_cache,
                    cache_key(calls[i].conversation_id,
                              calls[i].target_agent_name),
                    calls[i].remote, now, raises),
                raises)
       ELSE /\ raises = <<>>
            /\ calls' = [calls EXCEPT ![i] =
                  [@ EXCEPT !.response_content = Accumulate(@, content),
                            !.nmsg = @ + 1,
                            !.fragments = Append(@, content)]]
            /\ last' = NoOp
            /\ returned' = NoReturn
            /\ UNCHANGED <<thread_cache, used>>
    /\ UNCHANGED <<others, text, target, observe, now, settings, stage, is_configured,
                   agents>>

\* The invocation is exhausted: lines 249-261.
RespondStop(i) ==
    /\ calls[i].pc = "streaming"
    /\ calls' = [calls EXCEPT ![i] = IdleCall]
    /\ returned' = Return(i, [calls[i] EXCEPT !.events = @ \cup {"drained"}],
                          IF calls[i].response_content # ""
                          THEN SuccessResponse(calls[i].response_content)
                          ELSE NoResponse)
    /\ last' = NoOp
    /\ UNCHANGED <<others, text, target, observe, used, now, settings, stage, is_configured, agents,
                   thread_cache>>

\* Variant of RespondRaise: the invocation is started once more after its
\* first failure.
RespondRaise_retry(i) ==
    /\ calls[i].pc = "streaming"
    /\ IF calls[i].invokes < 2
       THEN /\ calls' = [calls EXCEPT ![i] =
                  [@ EXCEPT !.invokes = @ + 1, !.response_content = ""]]
            /\ returned' = NoReturn
       ELSE /\ calls' = [calls EXCEPT ![i] = IdleCall]
            /\ returned' =
                  Return(i, [calls[i] EXCEPT !.events = @ \cup {"raised"}],
                         ExceptionResponse(InvokeError))
    /\ last' = NoOp
    /\ UNCHANGED <<others, text, target, observe, used, now, settings, stage,
                   is_configured, agents, thread_cache>>

\* Variant of RespondRaise: the except clause clears the configured flag, as
\* the one of create() does.
RespondRaise_unconfigures(i) ==
    /\ calls[i].pc = "streaming"
    /\ calls' = [calls EXCEPT ![i] = IdleCall]
    /\ returned' = Return(i, [calls[i] EXCEPT !.events = @ \cup {"raised"}],
                          ExceptionResponse(InvokeError))
    /\ last' = NoOp
    /\ is_configured' = FALSE
    /\ UNCHANGED <<others, text, target, observe, used, now, settings, stage, agents,
                   thread_cache>>

\* The invocation raises while respond awaits its next message: lines 263-268.
RespondRaise(i) ==
    /\ calls[i].pc = "streaming"
    /\ calls' = [calls EXCEPT ![i] = IdleCall]
    /\ returned' = Return(i, [calls[i] EXCEPT !.events = @ \cup {"raised"}],
                          ExceptionResponse(InvokeError))
    /\ last' = NoOp
    /\ UNCHANGED <<others, text, target, observe, used, now, settings, stage, is_configured, agents,
                   thread_cache>>

\* A BaseException, as asyncio.CancelledError, is raised while respond awaits
\* its next message: `except Exception` (line 263) does not catch it.
RespondCancel(i) ==
    /\ calls[i].pc = "streaming"
    /\ calls' = [calls EXCEPT ![i] = IdleCall]
    /\ returned' = Propagate(calls[i])
    /\ last' = NoOp
    /\ UNCHANGED <<others, text, target, observe, used, now, settings, stage,
                   is_configured, agents, thread_cache>>

\* The timer of the cache advances.
Tick(maxtime) ==
    /\ now < maxtime
    /\ now' = now + 1
    /\ last' = NoOp
    /\ returned' = NoReturn
    /\ UNCHANGED <<others, text, target, observe, used, settings, stage, is_configured, agents,
                   thread_cache, calls>>

\* The outcomes of n calls of the hook: one outcome per call that is made,
\* which are all n or those up to the first one an exception leaves.
HookChoices ==
    [n \in 0..(MaxSize + 1) |->
        {r \in UNION {[1..k -> HookOutcomes] : k \in 0..n} :
            HookCalls(r, n) = Len(r)}]

\* The number of calls of the hook in the cache store of the next message of
\* the call in slot i.
PutHooks(i, has_thread) ==
    IF calls[i].pc = "streaming" /\ calls[i].conversation_id # "" /\ has_thread
    THEN Len(ThreadCache_setitem(thread_cache,
                 cache_key(calls[i].conversation_id,
                           calls[i].target_agent_name),
                 calls[i].remote, now, <<>>).hooks)
    ELSE 0

\* The steps of respond calls in the given slots, with texts, conversations
\* and message contents drawn from the given sets, and invocations of at
\* most maxfrags messages.
Respond(slots, texts, convs, frags, maxfrags) ==
    \E i \in slots :
        \/ \E t \in texts, c \in convs : RespondStart(i, t, c)
        \/ \E m \in frags, th \in BOOLEAN :
               \E r \in HookChoices[PutHooks(i, th)] :
                   RespondMessage(i, m, th, r, maxfrags)
        \/ RespondStop(i)
        \/ RespondRaise(i)
        \/ RespondCancel(i)

(***************************************************************************)
(* Spec: the orchestrator from construction on, one respond call at a time.*)
(***************************************************************************)
Next ==
    \/ Create
    \/ Respond({1}, RespondTexts, Convs, Fragments, MaxFrags)
    \/ Tick(MaxTime)

Spec == Init /\ [][Next]_vars

(***************************************************************************)
(* SpecCache: the thread cache of a Ready orchestrator (create() has       *)
(* returned with the three agents built).                                  *)
(***************************************************************************)
Ready ==
    /\ text = ""
    /\ target = ""
    /\ now = 0
    /\ settings = [endpoint |-> TRUE, ids |-> AgentNames]
    /\ stage = "done"
    /\ is_configured = TRUE
    /\ agents = AgentNames
    /\ thread_cache = EmptyCache
    /\ calls = [i \in Slots |-> IdleCall]
    /\ used = <<>>
    /\ last = NoOp
    /\ returned = NoReturn
    /\ simple_foundry_orchestrator_instance = 0
    /\ getters = [c \in Callers |-> IdleGetter]
    /\ handoff = NewHandoff

InitCache == Ready /\ observe = TRUE

\* One respond call at a time, over three cache keys: conversation c1 with
\* either agent and conversation c2 with the product agent.
NextCache ==
    \/ Respond({1}, RespondTexts, {"c1"}, CacheFragments, CacheFrags)
    \/ Respond({1}, RaceTexts, {"c2"}, CacheFragments, CacheFrags)
    \/ Tick(MaxTime)

SpecCache == InitCache /\ [][NextCache]_vars

(***************************************************************************)
(* SpecRace: overlapping respond calls on the cache of a Ready             *)
(* orchestrator, while the clock stands still (expiry is the subject of    *)
(* SpecCache).                                                             *)
(***************************************************************************)
NextRace == Respond(Slots, RaceTexts, RaceConvs, CacheFragments, CacheFrags)

InitRace == Ready /\ observe = FALSE

SpecRace == InitRace /\ [][NextRace]_vars

(***************************************************************************)
(* SpecOverlap: overlapping respond calls with the history of the cache    *)
(* operations recorded, while the clock stands still.                      *)
(***************************************************************************)
NextOverlap ==
    Respond(Slots, RespondTexts, {"c1"}, CacheFragments, CacheFrags)

SpecOverlap == InitCache /\ [][NextOverlap]_vars

(***************************************************************************)
(* SpecClassify: the classifier called on texts built from a vocabulary,   *)
(* on a Ready or an Unconfigured orchestrator that also serves respond     *)
(* calls.                                                                  *)
(***************************************************************************)
Vocabulary ==
    {"What Products", "return policy", "refunds", "paint", "what", "offer",
     "order status"}

\* " ".join(words)
RECURSIVE Join(_)
Join(words) ==
    IF words = <<>> THEN ""
    ELSE IF Len(words) = 1 THEN words[1]
    ELSE words[1] \o " " \o Join(Tail(words))

\* The texts of fewer than MaxWords vocabulary items.
ShorterTexts ==
    {Join(ws) : ws \in UNION {[1..n -> Vocabulary] : n \in 0..(MaxWords - 1)}}

\* create() has returned without an endpoint in the configuration.
Unconfigured ==
    /\ text = ""
    /\ target = ""
    /\ now = 0
    /\ settings = [endpoint |-> FALSE, ids |-> {}]
    /\ stage = "done"
    /\ is_configured = FALSE
    /\ agents = {}
    /\ thread_cache = EmptyCache
    /\ calls = [i \in Slots |-> IdleCall]
    /\ used = <<>>
    /\ last = NoOp
    /\ returned = NoReturn
    /\ simple_foundry_orchestrator_instance = 0
    /\ getters = [c \in Callers |-> IdleGetter]
    /\ handoff = NewHandoff

InitClassify == (Ready \/ Unconfigured) /\ observe = TRUE

\* A caller extends the text it will classify by one vocabulary item.
AppendWord(w) ==
    /\ text \in ShorterTexts
    /\ text' = IF text = "" THEN w ELSE text \o " " \o w
    /\ target' = ""
    /\ UNCHANGED <<others, observe, used, now, settings, stage, is_configured, agents,
                   thread_cache, calls, last, returned>>

\* The texts of at most MaxWords vocabulary items, and those of the respond
\* calls.
ClassifyTexts ==
    {Join(ws) : ws \in UNION {[1..n -> Vocabulary] : n \in 0..MaxWords}}
        \cup RespondTexts \cup OrderTexts

\* determine_target_agent, tabulated once over the texts of the model.
ClassifierTable == [t \in ClassifyTexts |-> determine_target_agent(t)]

\* The instance a method is called on.
Self ==
    [is_configured |-> is_configured, agents |-> agents,
     thread_cache |-> thread_cache]

\* The instance as __init__ leaves it without a configuration.
FreshSelf == [is_configured |-> FALSE, agents |-> {}, thread_cache |-> EmptyCache]

\* Variant of self_determine_target_agent: a conversation stays with the
\* agent it has a cached thread with.
self_determine_target_agent_sticky(self, user_text) ==
    LET cached == {a \in AgentNames :
                      \E c \in CacheConvs :
                          cache_key(c, a) \in DOMAIN self.thread_cache.data}
    IN  IF cached # {} THEN CHOOSE a \in cached : TRUE
        ELSE ClassifierTable[user_text]

\* self._determine_target_agent(user_text): the method reads no attribute of
\* self; its result is that of determine_target_agent, looked up in the
\* table.
self_determine_target_agent(self, user_text) ==
    ClassifierTable[user_text]

\* target = self._determine_target_agent(text)
Classify ==
    /\ target' = self_determine_target_agent(Self, text)
    /\ UNCHANGED <<others, text, observe, used, now, settings, stage, is_configured,
                   agents, thread_cache, calls, last, returned>>

NextClassify ==
    \/ \E w \in Vocabulary : AppendWord(w)
    \/ Classify
    \/ Respond({1}, OrderTexts, {"c1"}, CacheFragments, CacheFrags)

SpecClassify == InitClassify /\ [][NextClassify]_vars

(***************************************************************************)
(* SpecGetter: get_simple_foundry_orchestrator() and its callers.  The     *)
(* await of create() is a point where other callers run when create()      *)
(* reaches an await of its own (init_foundry_client(), the agent builds);  *)
(* an unconfigured create() returns without one.                           *)
(***************************************************************************)
\* The instances constructed so far (cls() in create()).
Constructed == Cardinality({c \in Callers : getters[c].made # 0})

GetReturn(c, made, got) ==
    getters' = [getters EXCEPT ![c] = [pc |-> "returned", made |-> made,
                                       got |-> got]]

\* get_simple_foundry_orchestrator() up to its first suspension:
\*     if _simple_foundry_orchestrator_instance is None:
\*         _simple_foundry_orchestrator_instance = await ...create()
\*     return _simple_foundry_orchestrator_instance
GetStart(c, suspends) ==
    /\ getters[c].pc = "idle"
    /\ IF simple_foundry_orchestrator_instance # 0
       THEN /\ GetReturn(c, 0, simple_foundry_orchestrator_instance)
            /\ UNCHANGED simple_foundry_orchestrator_instance
       ELSE IF has_foundry_config /\ suspends
       THEN /\ getters' = [getters EXCEPT ![c] =
                              [pc |-> "create", made |-> Constructed + 1,
                               got |-> 0]]
            /\ UNCHANGED simple_foundry_orchestrator_instance
       ELSE /\ simple_foundry_orchestrator_instance' = Constructed + 1
            /\ GetReturn(c, Constructed + 1, Constructed + 1)
    /\ UNCHANGED <<orchestrator, handoff>>

\* create() returns to the caller that awaited it: the global is assigned
\* and returned.
GetFinish(c) ==
    /\ getters[c].pc = "create"
    /\ simple_foundry_orchestrator_instance' = getters[c].made
    /\ GetReturn(c, getters[c].made, getters[c].made)
    /\ UNCHANGED <<orchestrator, handoff>>

NextGetter ==
    \/ \E c \in Callers : \E suspends \in BOOLEAN : GetStart(c, suspends)
    \/ \E c \in Callers : GetFinish(c)

SpecGetter == Init /\ [][NextGetter]_vars

(***************************************************************************)
(* SpecHandoff: HandoffChatOrchestrator.respond, whose calls overlap at    *)
(* the awaits of the orchestration run.                                    *)
(***************************************************************************)
HandoffAgents == {"TriageAgent", "RefundAgent"}
HandoffTexts == {"Where is my order"}
HandoffRoles == {"assistant", "tool"}

\* The content of the n-th message of the run started by the call in slot i.
MessageTexts ==
    << <<"Which order?", "a2", "a3">>, <<"b1", "Anything else? ", "b3">> >>

\* The contents the next message of that run may have.
NextContents(i) ==
    IF handoff.runs[i].sent < MaxEmit
    THEN {"", MessageTexts[i][handoff.runs[i].sent + 1]}
    ELSE {}

\* What result.get() yields for the run started by the call in slot i.
RunValues == <<"value a", "value b">>

\* The list objects that the result of a call other than that of slot i
\* holds.
HeldLists(i) ==
    {handoff.runs[j].messages : j \in Slots \ {i}} \ {0}

\* The list object `[]` creates in a call in slot i: one that no result
\* holds.
NewList(i) ==
    CHOOSE l \in ListIds \ HeldLists(i) :
        \A k \in ListIds \ HeldLists(i) : l <= k

\* The messages the call in slot i returned, as they are now.
Messages(i) ==
    IF handoff.runs[i].messages # 0
    THEN handoff.lists[handoff.runs[i].messages]
    ELSE handoff.runs[i].fallback

\* respond, up to the await of handoff_orchestration.invoke():
\* `self._assistant_messages = []` binds the attribute to a new list; the
\* list objects nothing refers to any more are gone.
HandoffStart(i, user_text) ==
    /\ handoff.runs[i].pc # "running"
    /\ LET task == IF handoff.last_agent # ""
                   THEN "[System: This is a follow-up response for "
                        \o handoff.last_agent
                        \o ". Please continue handling the user's request.]\n"
                        \o user_text
                   ELSE user_text
       IN  handoff' = [handoff EXCEPT
               !.lists = [l \in ListIds |->
                             IF l \in HeldLists(i) THEN @[l] ELSE <<>>],
               !.assistant_messages = NewList(i),
               !.runs[i] = [IdleRun EXCEPT !.pc = "running", !.task = task]]
    /\ UNCHANGED <<orchestrator, simple_foundry_orchestrator_instance, getters>>

\* _capture_callback(message), called by the run of slot i: it appends to
\* the list the attribute is bound to at the time of the call.
capture_callback(i, content, role, name) ==
    /\ handoff.runs[i].pc = "running"
    /\ handoff.runs[i].sent < MaxEmit
    /\ LET captured == content # "" /\ role = "assistant"
       IN  handoff' = [handoff EXCEPT
               !.lists[handoff.assistant_messages] =
                   IF captured THEN Append(@, content) ELSE @,
               !.last_agent = IF captured THEN name ELSE @,
               !.runs[i].sent = @ + 1,
               !.runs[i].emitted = IF captured THEN Append(@, content) ELSE @]
    /\ UNCHANGED <<orchestrator, simple_foundry_orchestrator_instance, getters>>

\* respond, from value = await result.get() to its return: a non-empty
\* self._assistant_messages is returned as the list object itself.
HandoffReturn(i, value) ==
    /\ handoff.runs[i].pc = "running"
    /\ LET assistant_messages == handoff.lists[handoff.assistant_messages]
           last_msg == IF assistant_messages # <<>>
                       THEN assistant_messages[Len(assistant_messages)]
                       ELSE value
           awaiting_user == /\ assistant_messages # <<>>
                            /\ EndsWith(Strip(last_msg), "?")
       IN  handoff' = [handoff EXCEPT
               !.runs[i].pc = "returned",
               !.runs[i].messages = IF assistant_messages # <<>>
                                    THEN handoff.assistant_messages
                                    ELSE 0,
               !.runs[i].fallback = IF assistant_messages # <<>>
                                    THEN <<>>
                                    ELSE <<last_msg>>,
               !.runs[i].awaiting_user = awaiting_user]
    /\ UNCHANGED <<orchestrator, simple_foundry_orchestrator_instance, getters>>

NextHandoff ==
    \/ \E i \in Slots : \E user_text \in HandoffTexts :
           HandoffStart(i, user_text)
    \/ \E i \in Slots : \E role \in HandoffRoles : \E name \in HandoffAgents :
       \E content \in NextContents(i) :
           capture_callback(i, content, role, name)
    \/ \E i \in Slots : HandoffReturn(i, RunValues[i])

\* The HandoffChatOrchestrator is constructed apart from the Foundry
\* configuration.
InitHandoff == Init /\ settings = [endpoint |-> FALSE, ids |-> {}]

SpecHandoff == InitHandoff /\ [][NextHandoff]_vars

(***************************************************************************)
(* Properties of the thread cache.                                         *)
(***************************************************************************)
\* The keys of cache c whose age has reached the time-to-live at time.
Expired(c, time) == {k \in DOMAIN c.data : ~(time < c.expires[k])}

\* The elements of a sequence are pairwise different.
NoDuplicates(seq) ==
    \A i, j \in 1..Len(seq) : seq[i] = seq[j] => i = j

\* The number of hook records of the step just taken for the entry of key k
\* in the cache before the step.
HooksFor(k) ==
    Cardinality({j \in 1..Len(last.hooks) :
                    /\ last.hooks[j].key = k
                    /\ last.hooks[j].thread_id = last.pre.data[k]})

\* C1: under any interleaving of respond calls the thread cache never holds
\* more keys than its capacity, and it holds one handle per key: every
\* structure of the cache lists each stored key exactly once.
C1_CacheBounded ==
    /\ Cardinality(DOMAIN thread_cache.data) <= MaxSize
    /\ NoDuplicates(thread_cache.links)
    /\ NoDuplicates(thread_cache.root)
    /\ SeqSet(thread_cache.links) = DOMAIN thread_cache.data
    /\ SeqSet(thread_cache.root) = DOMAIN thread_cache.data
    /\ DOMAIN thread_cache.expires = DOMAIN thread_cache.data
    /\ \A k \in DOMAIN thread_cache.data : thread_cache.data[k] # NoThread

\* C1 witness: the cache is full while two respond calls are in flight, both
\* about to store a key the cache does not hold.
C1_Witness ==
    /\ Cardinality(DOMAIN thread_cache.data) = MaxSize
    /\ \A i \in Slots :
          /\ calls[i].pc = "streaming"
          /\ cache_key(calls[i].conversation_id, calls[i].target_agent_name)
                \notin DOMAIN thread_cache.data

\* The step just taken was a put of a new key into a cache holding
\* capacity-many unexpired entries.
PutIntoFull ==
    /\ last.op = "put"
    /\ last.key \notin DOMAIN last.pre.data
    /\ Cardinality(DOMAIN last.pre.data) = MaxSize
    /\ Expired(last.pre, last.time) = {}

\* C2 as claimed: a put of a new key into a cache of capacity-many unexpired
\* entries removes exactly one entry, the one whose latest get-hit or put is the
\* oldest; the release hook runs once, with that entry's handle; the other
\* entries stay and the new key is present afterwards.
C2_EvictsLeastRecentlyUsed ==
    PutIntoFull =>
        /\ Len(last.used) = MaxSize
        /\ DOMAIN thread_cache.data =
              (DOMAIN last.pre.data \ {Head(last.used).key}) \cup {last.key}
        /\ \A k \in DOMAIN last.pre.data \ {Head(last.used).key} :
              thread_cache.data[k] = last.pre.data[k]
        /\ thread_cache.data[last.key] = last.value
        /\ Len(last.hooks) = 1
        /\ last.hooks[1].kind = "evicted"
        /\ last.hooks[1].key = Head(last.used).key
        /\ last.hooks[1].thread_id = last.pre.data[Head(last.used).key]

\* C3 as claimed: the get or put just done has purged every entry whose age
\* had reached the time-to-live (a put may have stored its own key anew), and
\* the release hook ran exactly once for each of them.
C3_PurgedByNextGetOrPut ==
    last.op \in {"get", "put"} =>
        \A k \in Expired(last.pre, last.time) :
            /\ k \in DOMAIN thread_cache.data =>
                  last.op = "put" /\ k = last.key
            /\ HooksFor(k) = 1

\* The entry the step just taken used last was used by a get, and the step
\* was a put that evicted for capacity.
EvictionAfterGet ==
    /\ last.op = "put"
    /\ last.evicted # <<>>
    /\ Len(last.used) >= 2
    /\ last.used[Len(last.used)].by = "get"

\* C4: a get that hits key A marks A most recently used: when A was read
\* after the other entries were last used, the next eviction for capacity
\* removes another entry and A survives with its handle.
C4_GetMarksMostRecentlyUsed ==
    EvictionAfterGet =>
        /\ last.used[Len(last.used)].key \in DOMAIN thread_cache.data
        /\ thread_cache.data[last.used[Len(last.used)].key]
              = last.pre.data[last.used[Len(last.used)].key]
        /\ \A j \in 1..Len(last.evicted) :
              last.evicted[j].key # last.used[Len(last.used)].key
        /\ \A j \in 1..Len(last.hooks) :
              last.hooks[j].key # last.used[Len(last.used)].key

\* C4 witness: an eviction has spared the entry that was stored first,
\* because a get had hit it after the other entries were last used.
C4_Witness ==
    /\ EvictionAfterGet
    /\ Head(last.pre.root) = last.used[Len(last.used)].key
    /\ Head(last.pre.root) \in DOMAIN thread_cache.data

\* C5 as claimed: when the release hook fails while entries are expired or
\* evicted, the failure does not leave the cache operation: the put stores
\* its key, every entry handed to the hook is removed, and the respond call
\* goes on.
C5_HookFailureCaught ==
    (last.op = "put" /\ \E n \in 1..Len(last.raises) : last.raises[n] # "none") =>
        /\ ~last.exc
        /\ last.hooks # <<>>
        /\ \A j \in 1..Len(last.hooks) :
              /\ last.hooks[j].key \in DOMAIN last.pre.data
              /\ last.hooks[j].key # last.key =>
                    last.hooks[j].key \notin DOMAIN thread_cache.data
        /\ last.key \in DOMAIN thread_cache.data
        /\ thread_cache.data[last.key] = last.value
        /\ calls[last.slot].pc = "streaming"
        /\ returned = NoReturn

(***************************************************************************)
(* Properties of the classifier.                                           *)
(***************************************************************************)
\* text contains phrase, whatever the case of its letters.
ContainsIgnoringCase(t, phrase) ==
    \E i \in 1..(Len(t) - Len(phrase) + 1) :
        Lower(SubSeq(t, i, i + Len(phrase) - 1)) = phrase

HasProductOverride(t) ==
    \E phrase \in {"what products", "what do you offer", "show me products"} :
        ContainsIgnoringCase(t, phrase)

HasPolicyOverride(t) ==
    \E phrase \in {"return policy", "warranty", "refund", "damaged"} :
        ContainsIgnoringCase(t, phrase)

\* C6: a text containing a product override phrase, in any case, is routed
\* to ProductLookupAgent, whatever its scores and whether or not it also
\* holds policy keywords or a policy override phrase.
C6_ProductOverride ==
    (target # "" /\ HasProductOverride(text)) => target = "ProductLookupAgent"

\* C6 witness: a classified text with a product override phrase, a policy
\* override phrase and a policy score above its product score.
C6_Witness ==
    /\ target = "ProductLookupAgent"
    /\ HasProductOverride(text)
    /\ HasPolicyOverride(text)
    /\ policy_score(text) > product_score(text)

\* C7: a text containing a policy override phrase and no product override
\* phrase is routed to KnowledgeAgent whatever its scores; with a product
\* override phrase as well, it is routed to ProductLookupAgent.
C7_PolicyOverride ==
    (target # "" /\ HasPolicyOverride(text)) =>
        target = IF HasProductOverride(text) THEN "ProductLookupAgent"
                 ELSE "KnowledgeAgent"

\* C7 witness: a classified text with a policy override phrase, no product
\* override phrase and a product score above its policy score.
C7_Witness ==
    /\ target = "KnowledgeAgent"
    /\ HasPolicyOverride(text)
    /\ ~HasProductOverride(text)
    /\ product_score(text) > policy_score(text)

\* C8: a text without override phrase is routed to ProductLookupAgent when
\* its product score is above its policy score, to KnowledgeAgent when its
\* policy score is positive and not below its product score, and to
\* ProductLookupAgent when both scores are zero.
C8_ScoreRules ==
    (target # "" /\ ~HasProductOverride(text) /\ ~HasPolicyOverride(text)) =>
        /\ product_score(text) > policy_score(text) =>
              target = "ProductLookupAgent"
        /\ (policy_score(text) >= product_score(text)
                /\ policy_score(text) > 0) =>
              target = "KnowledgeAgent"
        /\ (product_score(text) = 0 /\ policy_score(text) = 0) =>
              target = "ProductLookupAgent"

\* C8 witness: a classified text without override phrase whose scores are
\* equal and positive.
C8_Witness ==
    /\ target = "KnowledgeAgent"
    /\ ~HasProductOverride(text)
    /\ ~HasPolicyOverride(text)
    /\ product_score(text) = policy_score(text)
    /\ policy_score(text) > 0

\* The classifier, called in this state on the text of this state, returns
\* a known agent name (it returns, and what it returns is one name), and the
\* name it returns on a newly constructed instance.
ClassifierTotalAndPure ==
    /\ self_determine_target_agent(Self, text) \in AgentNames
    /\ self_determine_target_agent(Self, text)
           = self_determine_target_agent(FreshSelf, text)
(* Properties of respond.                                                  *)
(***************************************************************************)
\* C10: a respond call on an orchestrator that is not configured returns a
\* response with a non-empty error field, and has neither invoked an agent,
\* nor classified the text and looked up the registry, nor read or written
\* the thread cache.
C10_UnconfiguredRespond ==
    [][ (~is_configured /\ returned'.slot # 0) =>
            /\ "error" \in DOMAIN returned'.result
            /\ returned'.result.error # ""
            /\ returned'.call.invokes = 0
            /\ returned'.call.events = {}
            /\ returned'.call.target_agent_name = ""
            /\ last'.op = "none"
            /\ thread_cache' = thread_cache
            /\ calls' = calls ]_vars

\* C10 witness: a respond call with a conversation id has returned from an
\* orchestrator that is not configured although create() had built an agent.
C10_Witness ==
    /\ ~is_configured
    /\ agents # {}
    /\ returned.slot # 0
    /\ returned.call.conversation_id # ""
    /\ returned.result = NotConfiguredResponse

(***************************************************************************)
(* Properties of construction and of the states after it.                  *)
(***************************************************************************)
\* C11: once create() has returned, no step of a respond call, whatever its
\* outcome, changes the configured flag or the set of registered agents.
C11_TerminalStates ==
    [][stage = "done" =>
          /\ stage' = "done"
          /\ is_configured' = is_configured
          /\ agents' = agents]_vars

\* C11 witness: a respond call on a Ready orchestrator has returned the
\* response of a raised invocation, and the orchestrator is still Ready.
C11_Witness ==
    /\ stage = "done"
    /\ is_configured
    /\ returned.slot # 0
    /\ "raised" \in returned.call.events
    /\ returned.call.target_agent_name \in agents

\* C12: create() ends not configured whenever the endpoint is absent, all
\* agent identifiers are absent or no agent was built; so a Ready
\* orchestrator has at least one registered agent.
C12_ReadyHasAgents ==
    stage = "done" =>
        /\ (~settings.endpoint \/ settings.ids = {} \/ agents = {}) =>
              ~is_configured
        /\ is_configured => agents # {}

\* C12 witness: create() has returned not configured with the endpoint
\* present, because no agent identifier was.
C12_Witness ==
    /\ stage = "done"
    /\ settings.endpoint
    /\ settings.ids = {}
    /\ agents = {}
    /\ ~is_configured

\* C13 as claimed: with the endpoint configured, after create() the registry
\* holds exactly the agents whose identifiers are present, and the
\* orchestrator is Ready exactly when it holds at least one.
C13_RegistryMatchesIdentifiers ==
    (stage = "done" /\ settings.endpoint) =>
        /\ agents = settings.ids
        /\ is_configured <=> agents # {}

\* The respond call that returned in the step just taken was routed to an
\* agent the registry does not hold.
ReturnedUnavailable(r) ==
    /\ r.slot # 0
    /\ TargetOf[r.call.user_text] \notin agents

\* C14: on a Ready orchestrator a respond call routed to an agent that is not
\* registered returns an error naming that agent, without invoking an agent
\* and without reading or writing the cache; the orchestrator stays Ready and
\* free to serve the next call.
C14_AgentUnavailable ==
    [][(is_configured /\ ReturnedUnavailable(returned')) =>
          /\ returned'.result =
                UnavailableResponse(TargetOf[returned'.call.user_text])
          /\ returned'.result.error # ""
          /\ returned'.call.invokes = 0
          /\ returned'.call.events \cap {"get", "put", "invoke"} = {}
          /\ last'.op = "none"
          /\ thread_cache' = thread_cache
          /\ is_configured' /\ agents' = agents
          /\ calls'[returned'.slot].pc = "idle"]_vars

\* C14 witness: a Ready orchestrator that holds ProductLookupAgent has
\* returned the error for KnowledgeAgent, which it does not hold.
C14_Witness ==
    /\ is_configured
    /\ "ProductLookupAgent" \in agents
    /\ ReturnedUnavailable(returned)
    /\ returned.result = UnavailableResponse("KnowledgeAgent")

(***************************************************************************)
(* Properties of the responses of respond.                                 *)
(***************************************************************************)
\* The concatenation of a sequence of strings.
RECURSIVE Concat(_)
Concat(strings) ==
    IF strings = <<>> THEN "" ELSE Head(strings) \o Concat(Tail(strings))

\* The call of return record r drained its invocation, which had yielded at
\* least one non-empty fragment.
DrainedWithText(r) ==
    /\ r.slot # 0
    /\ "drained" \in r.call.events
    /\ \E j \in 1..Len(r.call.fragments) : r.call.fragments[j] # ""

\* The call of return record r saw its invocation raise, or drained it
\* without any text.
InvocationFailed(r) ==
    /\ r.slot # 0
    /\ \/ "raised" \in r.call.events
       \/ /\ "drained" \in r.call.events
          /\ \A j \in 1..Len(r.call.fragments) : r.call.fragments[j] = ""

\* The last character of t that is not whitespace is a question mark.
EndsWithQuestionMark(t) ==
    \E k \in 1..Len(t) :
        /\ CharAt(t, k) = "?"
        /\ \A j \in (k + 1)..Len(t) : CharAt(t, j) \in Whitespace

\* C15: when the invocation completes with at least one non-empty fragment,
\* respond returns as text the concatenation of all fragments in the order
\* of their arrival, as messages the one-element sequence of that text, and
\* no error field.
C15_TextIsConcatenation ==
    DrainedWithText(returned) =>
        /\ DOMAIN returned.result = {"messages", "awaiting_user", "text"}
        /\ returned.result.text = Concat(returned.call.fragments)
        /\ returned.result.messages = <<Concat(returned.call.fragments)>>

\* C15 witness: a call has returned after two different non-empty fragments.
C15_Witness ==
    /\ DrainedWithText(returned)
    /\ Len(returned.call.fragments) = 2
    /\ returned.call.fragments[1] # ""
    /\ returned.call.fragments[2] # ""
    /\ returned.call.fragments[1] # returned.call.fragments[2]
    /\ "messages" \in DOMAIN returned.result

\* C16: in every successful response awaiting_user is true exactly when the
\* text, trimmed of leading and trailing whitespace, ends with '?'.
C16_AwaitingUser ==
    (returned.slot # 0 /\ "messages" \in DOMAIN returned.result) =>
        (returned.result.awaiting_user
            <=> EndsWithQuestionMark(returned.result.text))

\* C16 witness: a successful response whose text has a space and a vertical
\* tab after its final question mark, and awaiting_user true.
C16_Witness ==
    /\ returned.slot # 0
    /\ "messages" \in DOMAIN returned.result
    /\ returned.result.awaiting_user
    /\ EndsWith(returned.result.text, "? " \o VT)

\* What the invocation raised has left the respond call of the step just
\* taken.
InvocationPropagated ==
    /\ "propagated" \in returned.call.events
    /\ last.op = "none"

\* C17 as claimed: when the invocation raises, at its start or after any
\* number of fragments, or drains without text, respond does not raise: it
\* returns a response with a non-empty error and a non-empty text, and the
\* orchestrator stays Ready and free for the next call.
C17_InvocationFailure ==
    /\ ~InvocationPropagated
    /\ InvocationFailed(returned) =>
           /\ DOMAIN returned.result = {"error", "text"}
           /\ returned.result.error # ""
           /\ returned.result.text # ""
           /\ stage = "done"
           /\ is_configured
           /\ returned.call.target_agent_name \in agents
           /\ calls[returned.slot].pc = "idle"

\* C18: a respond call starts the agent invocation at most once, whatever
\* its outcome; the calls that reached the invocation started it once.
C18_NoRetry ==
    /\ \A i \in Slots : calls[i].invokes <= 1
    /\ returned.slot # 0 =>
          /\ returned.call.invokes <= 1
          /\ returned.call.invokes = 1
                <=> "invoke" \in returned.call.events

\* C18 witness: a call whose invocation raised has returned after one start.
C18_Witness ==
    /\ returned.slot # 0
    /\ "raised" \in returned.call.events
    /\ returned.call.invokes = 1
    /\ "error" \in DOMAIN returned.result

\* The call of return record r succeeded: its invocation drained with text.
SuccessPath(r) ==
    /\ "drained" \in r.call.events
    /\ Concat(r.call.fragments) # ""

\* C19 as claimed: every returned value carries text, messages and
\* awaiting_user, and carries error exactly on the failure paths.
C19_WellFormedResponse ==
    returned.slot # 0 =>
        /\ {"text", "messages", "awaiting_user"} \subseteq DOMAIN returned.result
        /\ "error" \in DOMAIN returned.result <=> ~SuccessPath(returned)

\* C19 as amended: every returned value carries a non-empty text; on the
\* success path it carries messages and awaiting_user besides and no error;
\* on every failure path it carries a non-empty error besides and neither
\* messages nor awaiting_user.
C19_ResponseShapes ==
    returned.slot # 0 =>
        /\ "text" \in DOMAIN returned.result
        /\ returned.result.text # ""
        /\ IF SuccessPath(returned)
           THEN /\ DOMAIN returned.result = {"text", "messages", "awaiting_user"}
                /\ returned.result.awaiting_user \in BOOLEAN
                /\ Len(returned.result.messages) = 1
           ELSE /\ DOMAIN returned.result = {"error", "text"}
                /\ returned.result.error # ""

\* C19 witness: a call has returned the response of an invocation that
\* drained without text.
C19_Witness ==
    /\ returned.slot # 0
    /\ "drained" \in returned.call.events
    /\ ~SuccessPath(returned)
    /\ DOMAIN returned.result = {"error", "text"}

\* The step just taken was the cache lookup of a call whose key the cache
\* held unexpired.
LookupOfLiveEntry ==
    /\ last.op = "get"
    /\ last.key \in DOMAIN last.pre.data
    /\ last.time < last.pre.expires[last.key]

\* C20: when a call follows, with the same conversation id and agent, a call
\* whose invocation yielded a thread, and the entry has neither expired nor
\* been evicted, its cache lookup returns that thread, which was created for
\* this conversation and agent, and its invocation starts on it.
C20_ThreadReused ==
    LookupOfLiveEntry =>
        /\ last.value = last.pre.data[last.key]
        /\ last.value # NoThread
        /\ last.value[1] = last.key
        /\ calls[last.slot].pc = "streaming"
        /\ cache_key(calls[last.slot].conversation_id,
                     calls[last.slot].target_agent_name) = last.key
        /\ calls[last.slot].thread = last.value
        /\ calls[last.slot].remote = last.value

\* C20 witness: a later call found the thread of an earlier one after the
\* clock had advanced, while the cache also held another entry.
C20_Witness ==
    /\ LookupOfLiveEntry
    /\ last.time > 0
    /\ Cardinality(DOMAIN last.pre.data) > 1
    /\ calls[last.slot].thread = last.pre.data[last.key]

(***************************************************************************)
(* Isolation, failure and overlap of respond calls on the thread cache.    *)
(***************************************************************************)
\* The frame of the respond call of slot i, in flight or just returned.
FrameOf(i) == IF calls[i].pc # "idle" THEN calls[i] ELSE returned.call

\* The keys of c other than key, in the order of links.
OtherLinks(c, key) == SeqDel(c.links, key)

\* C21: distinct (conversation id, agent) pairs have distinct cache keys, and
\* the cache operation of a respond call for (c, A) is on the key of (c, A)
\* only: a get returns nothing but the handle stored under that key and
\* leaves every entry's handle and expiry as they were, a put leaves the
\* handle, the expiry and the relative order of every other entry it keeps
\* as they were (the entries it drops are the purged and the evicted ones).
C21_KeyIsolation ==
    /\ \A c1 \in CacheConvs, c2 \in CacheConvs :
       \A a1 \in AgentNames, a2 \in AgentNames :
           cache_key(c1, a1) = cache_key(c2, a2) => c1 = c2 /\ a1 = a2
    /\ last.op \in {"get", "put"} =>
           /\ last.key = FrameOf(last.slot).conversation_id \o "_"
                             \o FrameOf(last.slot).target_agent_name
           /\ \A k \in DOMAIN thread_cache.data \ {last.key} :
                  /\ k \in DOMAIN last.pre.data
                  /\ thread_cache.data[k] = last.pre.data[k]
                  /\ thread_cache.expires[k] = last.pre.expires[k]
           /\ \A k \in DOMAIN last.pre.data \ DOMAIN thread_cache.data :
                  \E it \in SeqSet(last.purged) \cup SeqSet(last.evicted) :
                      it.key = k
           /\ OtherLinks(thread_cache, last.key)
                  = SelectSeq(OtherLinks(last.pre, last.key),
                              LAMBDA k : k \in DOMAIN thread_cache.data)
    /\ last.op = "get" =>
           /\ DOMAIN thread_cache.data = DOMAIN last.pre.data
           /\ thread_cache.data = last.pre.data
           /\ thread_cache.expires = last.pre.expires
           /\ last.value # NoThread =>
                  /\ last.key \in DOMAIN last.pre.data
                  /\ last.value = last.pre.data[last.key]
                  /\ FrameOf(last.slot).thread = last.value

\* C21 witness: a call's lookup hit while the cache held the entry of the
\* same conversation under the other agent, which the step left alone.
C21_Witness ==
    /\ last.op = "get"
    /\ last.value # NoThread
    /\ \E a \in AgentNames :
           /\ a # calls[last.slot].target_agent_name
           /\ cache_key(calls[last.slot].conversation_id, a)
                  \in DOMAIN thread_cache.data

\* The step just taken was the first message of the call of slot i, whose
\* thread it stored: last.pre is the cache as the invocation began.
FirstMessageStored(i) ==
    /\ last.op = "put"
    /\ last.slot = i
    /\ calls[i].pc = "streaming"
    /\ calls[i].nmsg = 1

\* C22 as claimed: a respond call whose invocation raises, or drains without
\* text, returns with the thread cache as it was when its invocation began;
\* stated for the calls that return right after their first message.
C22_FailedCallLeavesCache ==
    [][\A i \in Slots :
           (/\ FirstMessageStored(i)
            /\ returned'.slot = i
            /\ InvocationFailed(returned'))
               => thread_cache' = last.pre]_vars

\* The calls in slots i and j overlap, for the same conversation and agent,
\* and the cache lookup of both missed.
BothMissed(i, j) ==
    /\ i # j
    /\ calls[i].pc = "streaming"
    /\ calls[j].pc = "streaming"
    /\ calls[i].conversation_id = calls[j].conversation_id
    /\ calls[i].target_agent_name = calls[j].target_agent_name
    /\ "get" \in calls[i].events
    /\ "get" \in calls[j].events
    /\ calls[i].thread = NoThread
    /\ calls[j].thread = NoThread

\* The handles the cache holds.
CachedThreads == {thread_cache.data[k] : k \in DOMAIN thread_cache.data}

\* C23: two overlapping calls for the same conversation and agent whose
\* lookups both missed are both in flight, each invoked once without a prior
\* thread and each on a thread of its own; a store leaves under the key the
\* handle of the call that made it, and the handle it replaced, like the
\* handle of a call in flight that another call has overwritten, is in no
\* entry of the cache.
C23_LastWriterWins ==
    /\ \A i \in Slots, j \in Slots :
           BothMissed(i, j) =>
               /\ calls[i].invokes = 1
               /\ calls[j].invokes = 1
               /\ calls[i].remote # NoThread
               /\ calls[j].remote # NoThread
               /\ calls[i].remote # calls[j].remote
    /\ last.op = "put" =>
           /\ last.key \in DOMAIN thread_cache.data
           /\ thread_cache.data[last.key] = last.value
           /\ last.value = FrameOf(last.slot).remote
           /\ (/\ last.key \in DOMAIN last.pre.data
               /\ last.pre.data[last.key] # last.value)
                  => last.pre.data[last.key] \notin CachedThreads
    /\ \A i \in Slots, j \in Slots :
           (/\ BothMissed(i, j)
            /\ "put" \in calls[i].events
            /\ "put" \in calls[j].events)
               => \/ calls[i].remote \notin CachedThreads
                  \/ calls[j].remote \notin CachedThreads

\* C23 witness: both calls missed, both are still in flight, and the second
\* store has just replaced the handle of the first.
C23_Witness ==
    /\ last.op = "put"
    /\ last.key \in DOMAIN last.pre.data
    /\ \E j \in Slots :
           /\ BothMissed(last.slot, j)
           /\ last.pre.data[last.key] = calls[j].remote
           /\ thread_cache.data[last.key] = calls[last.slot].remote
           /\ calls[j].remote \notin CachedThreads

(***************************************************************************)
(* Expiry, lifetime and replacement in the thread cache.                   *)
(***************************************************************************)
\* The step just taken stored a key the cache did not hold.
PutOfNewKey ==
    /\ last.op = "put"
    /\ last.key \notin DOMAIN last.pre.data

\* The keys of a sequence of items.
KeysOf(items) == {items[j].key : j \in 1..Len(items)}

\* The entries of the cache before the step that had not expired.
LiveBefore == DOMAIN last.pre.data \ Expired(last.pre, last.time)

\* C24 as claimed: a put of a new key first purges every expired entry, the release
\* hook running once for each, in expiry order and before any other hook;
\* it evicts an entry only if the unexpired entries alone fill the cache,
\* and then the least recently used of them; so a put into a cache at
\* capacity with an expired entry evicts nothing.
C24_PurgeBeforeEvict ==
    PutOfNewKey =>
        /\ Len(last.hooks) = Len(last.purged) + Len(last.evicted)
        /\ KeysOf(last.purged) = Expired(last.pre, last.time)
        /\ NoDuplicates(last.purged)
        /\ \A j \in 1..Len(last.purged) :
               /\ last.purged[j] = Item(last.pre, last.purged[j].key)
               /\ last.hooks[j].kind = "expired"
               /\ last.hooks[j].key = last.purged[j].key
               /\ last.hooks[j].thread_id = last.purged[j].thread_id
               /\ \A u \in 1..(j - 1) :
                      last.pre.expires[last.purged[u].key]
                          <= last.pre.expires[last.purged[j].key]
        /\ \A j \in 1..Len(last.evicted) :
               /\ last.hooks[Len(last.purged) + j].kind = "evicted"
               /\ last.hooks[Len(last.purged) + j].key = last.evicted[j].key
        /\ (last.evicted # <<>>) <=> (Cardinality(LiveBefore) >= MaxSize)
        /\ KeysOf(last.evicted) \subseteq LiveBefore
        /\ (/\ Cardinality(DOMAIN last.pre.data) = MaxSize
            /\ Expired(last.pre, last.time) # {})
               => /\ last.evicted = <<>>
                  /\ DOMAIN thread_cache.data = LiveBefore \cup {last.key}

\* C25: a lookup leaves the expiry of every entry as it was, and misses on an
\* entry whose expiry has been reached, however recently the entry was read;
\* a put sets the expiry of its key to the time of the put plus the
\* time-to-live; and the expiry of an entry the cache keeps changes in no
\* other step.
C25_HitKeepsExpiry ==
    [][/\ last'.op = "get" =>
              /\ last'.pre = thread_cache
              /\ thread_cache'.expires = thread_cache.expires
              /\ thread_cache'.root = thread_cache.root
              /\ (/\ last'.key \in DOMAIN thread_cache.data
                  /\ ~(now < thread_cache.expires[last'.key]))
                     => /\ last'.value = NoThread
                        /\ calls'[last'.slot].thread = NoThread
       /\ (last'.op = "put" /\ ~last'.exc) =>
              /\ last'.time = now
              /\ thread_cache'.expires[last'.key] = now + TTL
       /\ \A k \in DOMAIN thread_cache.data \cap DOMAIN thread_cache'.data :
              thread_cache'.expires[k] # thread_cache.expires[k]
                  => last'.op = "put" /\ last'.key = k]_vars

\* C25 witness: a lookup missed on an entry that was stored but had expired,
\* although the latest use of the entry was a lookup that hit.
C25_Witness ==
    /\ last.op = "get"
    /\ last.key \in DOMAIN last.pre.data
    /\ ~(last.time < last.pre.expires[last.key])
    /\ last.value = NoThread
    /\ \E j \in 1..Len(last.used) :
           /\ last.used[j].key = last.key
           /\ last.used[j].by = "get"

(***************************************************************************)
(* The module-level accessor.                                              *)
(***************************************************************************)
\* C26 as claimed: under every interleaving of its callers
\* get_simple_foundry_orchestrator() constructs at most one orchestrator, and
\* every caller that has returned was handed the same instance (and with it
\* the same thread cache), the one the module global holds.
C26_CreatedOnce ==
    /\ Constructed <= 1
    /\ \A c \in Callers, d \in Callers :
           (getters[c].pc = "returned" /\ getters[d].pc = "returned")
               => getters[c].got = getters[d].got
    /\ \A c \in Callers :
           getters[c].pc = "returned"
               => getters[c].got = simple_foundry_orchestrator_instance

(***************************************************************************)
(* Routing and construction failures.                                      *)
(***************************************************************************)
RoutedAgents == {"ProductLookupAgent", "KnowledgeAgent"}

\* C27: the classifier returns ProductLookupAgent or KnowledgeAgent, never
\* OrderStatusAgent; no respond call is routed to or invokes the registered
\* OrderStatusAgent, and no cache operation and no cache entry is under a
\* key of OrderStatusAgent.
C27_OrderAgentNeverRouted ==
    /\ target \in RoutedAgents \cup {""}
    /\ \A t \in DOMAIN TargetOf : TargetOf[t] \in RoutedAgents
    /\ \A i \in Slots :
           calls[i].pc # "idle" => calls[i].target_agent_name \in RoutedAgents
    /\ (returned.slot # 0 /\ "classify" \in returned.call.events)
           => returned.call.target_agent_name \in RoutedAgents
    /\ \A k \in DOMAIN thread_cache.data : ~EndsWith(k, "_OrderStatusAgent")
    /\ last.op # "none" => ~EndsWith(last.key, "_OrderStatusAgent")

\* C27 witness: with OrderStatusAgent registered, a text about the status of
\* an order was classified and a respond call for such a text was served by
\* the invocation of KnowledgeAgent.
C27_Witness ==
    /\ "OrderStatusAgent" \in agents
    /\ Contains(Lower(text), "order status")
    /\ target = "KnowledgeAgent"
    /\ returned.slot # 0
    /\ returned.call.user_text \in OrderTexts
    /\ "invoke" \in returned.call.events
    /\ returned.call.target_agent_name = "KnowledgeAgent"

\* In this step of create() an awaited call raised: create() raises, or it
\* returns from the client initialisation or from a build before the last,
\* or from the last build without having registered the agent whose
\* identifier is present.
CreateRaised ==
    /\ stage \in {"client", "product", "order", "knowledge"}
    /\ \/ stage' = "raised"
       \/ /\ stage' = "done"
          /\ stage = "knowledge" =>
                 /\ "KnowledgeAgent" \in settings.ids
                 /\ "KnowledgeAgent" \notin agents'

\* create() has returned after one of its steps raised: with the endpoint
\* set, an identifier is present whose agent is not registered.
CreateHasFailed ==
    /\ stage = "done"
    /\ settings.endpoint
    /\ agents # settings.ids

\* C28 as claimed: when the client initialisation or a build raises, create()
\* ends with an orchestrator that is not configured and keeps the agents
\* registered so far; and every respond call that returns after such a
\* create() returns the not-configured error without invoking an agent,
\* whatever the registry holds.
C28_FailedCreateIsUnconfigured ==
    [][/\ CreateRaised =>
              /\ stage' = "done"
              /\ ~is_configured'
              /\ agents' = agents
       /\ (CreateHasFailed /\ returned'.slot # 0) =>
              /\ ~is_configured
              /\ returned'.result = NotConfiguredResponse
              /\ returned'.call.invokes = 0
              /\ agents' = agents
              /\ ~is_configured']_vars

\* The step just taken stored a handle under a key that held, unexpired,
\* another handle.
PutReplacedHandle ==
    /\ last.op = "put"
    /\ last.key \in DOMAIN last.pre.data
    /\ last.time < last.pre.expires[last.key]
    /\ last.pre.data[last.key] # last.value

\* C29: a put on a key that holds another handle replaces that handle and
\* nothing else: no entry is evicted, at capacity or not, the keys stay the
\* unexpired ones, every other entry keeps its handle, the old handle is in
\* the cache no more, and no release hook ran for it.  Every release hook of
\* a cache operation is for an item that the operation purged as expired or
\* evicted as least recently used.
C29_ReplacementIsSilent ==
    /\ PutReplacedHandle =>
           /\ last.evicted = <<>>
           /\ ~last.inserted
           /\ DOMAIN thread_cache.data
                  = DOMAIN last.pre.data \ Expired(last.pre, last.time)
           /\ thread_cache.data[last.key] = last.value
           /\ \A k \in DOMAIN thread_cache.data \ {last.key} :
                  thread_cache.data[k] = last.pre.data[k]
           /\ last.pre.data[last.key] \notin CachedThreads
           /\ \A j \in 1..Len(last.hooks) :
                  /\ last.hooks[j].key # last.key
                  /\ last.hooks[j].thread_id # last.pre.data[last.key]
    /\ Len(last.hooks) = Len(last.purged) + Len(last.evicted)
    /\ \A j \in 1..Len(last.hooks) :
           \E it \in SeqSet(last.purged) \cup SeqSet(last.evicted) :
               /\ last.hooks[j].key = it.key
               /\ last.hooks[j].thread_id = it.thread_id
               /\ it = Item(last.pre, it.key)
               /\ \/ it.key \notin DOMAIN thread_cache.data
                  \/ it.key = last.key

\* C29 witness: at capacity, the put of one call replaced the handle that an
\* overlapping call had stored under the same key; the cache holds the same
\* keys as before.
C29_Witness ==
    /\ PutReplacedHandle
    /\ Cardinality(DOMAIN last.pre.data) = MaxSize
    /\ DOMAIN thread_cache.data = DOMAIN last.pre.data
    /\ last.hooks = <<>>
    /\ thread_cache.data[last.key] = last.value

(***************************************************************************)
(* The handoff orchestrator.                                               *)
(***************************************************************************)
\* C30 as claimed: under every interleaving of overlapping respond calls, a
\* call that has returned returned as messages the assistant messages that
\* the orchestration run it started emitted, in the order of emission, or
\* the one fallback message when that run emitted none.
C30_OwnMessagesReturned ==
    \A i \in Slots :
        handoff.runs[i].pc = "returned" =>
            Messages(i) =
                IF handoff.runs[i].emitted # <<>>
                THEN handoff.runs[i].emitted
                ELSE <<RunValues[i]>>

=============================================================================
